---- MODULE Spec2Model ----
(***************************************************************************)
(* The in-memory bank of src/apis: the dictionaries and counters of        *)
(* functions.py, the business functions that read and write them, and the  *)
(* FastAPI handlers of crud.py that call them and turn their exceptions    *)
(* into HTTP answers.  Every request runs to completion, so one request is *)
(* one step.  The handlers that only read (GET) change nothing and are not *)
(* steps.  Request bodies have passed pydantic's validation.  Money        *)
(* amounts are finite and counted in whole units: the float values inf and *)
(* nan are outside the model.                                              *)
(***************************************************************************)
EXTENDS Integers, Sequences, FiniteSets, TLC

\* ------------------------------------------------------------------ bounds
MaxClienteId == 2
MaxSeqCta == 2
MaxSeqTx == 2
MaxSaldo == 2

\* ------------------------------------------------------------------ inputs
None == "None"
Nombres == {"Ana"}
Emails == {"ana@x.com", "luis@x.com"}
Notas == {"ok"}
Tipos == {"AHORROS", "CORRIENTE"}
ClienteIds == 1..MaxClienteId
Montos == 1..MaxSaldo
TxIds == 1..MaxSeqTx

\* --------------------------------------------------------- functions.py: models
TipoCuenta == {"AHORROS", "CORRIENTE", "CREDITO"}

TransaccionTipo == {"DEPOSITO", "RETIRO", "TRANSFERENCIA"}

Cliente(id, nombre, email) == [id |-> id, nombre |-> nombre, email |-> email]

Cuenta(numero, cliente_id, tipo, saldo) ==
    [numero |-> numero, cliente_id |-> cliente_id, tipo |-> tipo, saldo |-> saldo]

\* timestamp (datetime.now()) is read by no operation modelled here and is left out.
Transaccion(id, tipo, cuenta_origen, cuenta_destino, monto) ==
    [id |-> id, tipo |-> tipo, cuenta_origen |-> cuenta_origen,
     cuenta_destino |-> cuenta_destino, monto |-> monto, nota |-> None]

\* ------------------------------------------------- functions.py: the database
VARIABLES clientes, cuentas, transacciones, _seq_tx, _seq_cta,
          resp, numeros_emitidos, ids_registrados

vars == <<clientes, cuentas, transacciones, _seq_tx, _seq_cta,
          resp, numeros_emitidos, ids_registrados>>

\* The five globals of functions.py as one value, passed to and returned by
\* the functions below.
Store ==
    [clientes |-> clientes, cuentas |-> cuentas, transacciones |-> transacciones,
     seq_tx |-> _seq_tx, seq_cta |-> _seq_cta]

\* Python dict and list operations.
DictSet(d, k, v) == [x \in (DOMAIN d) \cup {k} |-> IF x = k THEN v ELSE d[x]]

DictDel(d, k) == [x \in (DOMAIN d) \ {k} |-> d[x]]

Max(S) == CHOOSE x \in S : \A y \in S : y <= x

\* The two ways a function ends: a value, or an exception.
Return(db, val) == [db |-> db, exc |-> None, detail |-> None, val |-> val]

Raise(db, exc, detail) == [db |-> db, exc |-> exc, detail |-> detail, val |-> None]

\* -------------------------------------------------- functions.py: utilities
Digits == <<"0", "1", "2", "3", "4", "5", "6", "7", "8", "9">>

RECURSIVE str(_)
str(n) == IF n < 10 THEN Digits[n + 1] ELSE str(n \div 10) \o Digits[(n % 10) + 1]

RECURSIVE zfill(_, _)
zfill(s, w) == IF Len(s) >= w THEN s ELSE zfill("0" \o s, w)

\* f"ACC{n:04d}"
FormatACC(n) == "ACC" \o zfill(str(n), 4)

\* Bug: the id is taken from the length of the list, not from the counter.
_next_tx_id_por_longitud(db) ==
    [db |-> db, val |-> Len(db.transacciones) + 1]

_next_tx_id(db) ==
    [db |-> [db EXCEPT !.seq_tx = @ + 1], val |-> db.seq_tx + 1]

\* Bug: the number is taken from the size of the dict, not from the counter.
_next_cta_num_por_cantidad(db) ==
    [db |-> db, val |-> FormatACC(Cardinality(DOMAIN db.cuentas) + 1)]

_next_cta_num(db) ==
    [db |-> [db EXCEPT !.seq_cta = @ + 1], val |-> FormatACC(db.seq_cta + 1)]

_registrar_tx(db, tipo, monto, cta_origen, cta_destino) ==
    LET n == _next_tx_id(db)
        tx == Transaccion(n.val, tipo, cta_origen, cta_destino, monto)
    IN  [db |-> [n.db EXCEPT !.transacciones = Append(@, tx)], val |-> tx]

\* --------------------------------------------------- functions.py: clientes
\* Bug: the email is not checked against the stored clients.
crear_cliente_sin_verificar_email(db, nombre, email) ==
    LET new_id == IF DOMAIN db.clientes = {} THEN 1
                  ELSE Max(DOMAIN db.clientes) + 1
        cliente == Cliente(new_id, nombre, email)
    IN  Return([db EXCEPT !.clientes = DictSet(@, new_id, cliente)], cliente)

\* Bug: the id is len(clientes) + 1, not max + 1.
crear_cliente_id_por_cantidad(db, nombre, email) ==
    IF \E i \in DOMAIN db.clientes : db.clientes[i].email = email
    THEN Raise(db, "ValueError", "Email ya registrado")
    ELSE LET new_id == Cardinality(DOMAIN db.clientes) + 1
             cliente == Cliente(new_id, nombre, email)
         IN  Return([db EXCEPT !.clientes = DictSet(@, new_id, cliente)], cliente)

crear_cliente(db, nombre, email) ==
    IF \E i \in DOMAIN db.clientes : db.clientes[i].email = email
    THEN Raise(db, "ValueError", "Email ya registrado")
    ELSE LET new_id == IF DOMAIN db.clientes = {} THEN 1
                       ELSE Max(DOMAIN db.clientes) + 1
             cliente == Cliente(new_id, nombre, email)
         IN  Return([db EXCEPT !.clientes = DictSet(@, new_id, cliente)], cliente)

actualizar_cliente(db, cliente_id, nombre, email) ==
    IF cliente_id \notin DOMAIN db.clientes
    THEN Raise(db, "KeyError", "Cliente no encontrado")
    ELSE IF \E i \in DOMAIN db.clientes :
                db.clientes[i].email = email /\ db.clientes[i].id # cliente_id
    THEN Raise(db, "ValueError", "Email ya registrado por otro cliente")
    ELSE LET cliente == Cliente(cliente_id, nombre, email)
         IN  Return([db EXCEPT !.clientes = DictSet(@, cliente_id, cliente)], cliente)

\* Bug: the client's accounts are not looked for.
eliminar_cliente_sin_verificar_cuentas(db, cliente_id) ==
    IF cliente_id \notin DOMAIN db.clientes
    THEN Raise(db, "KeyError", "Cliente no encontrado")
    ELSE Return([db EXCEPT !.clientes = DictDel(@, cliente_id)], None)

eliminar_cliente(db, cliente_id) ==
    IF cliente_id \notin DOMAIN db.clientes
    THEN Raise(db, "KeyError", "Cliente no encontrado")
    ELSE IF \E n \in DOMAIN db.cuentas : db.cuentas[n].cliente_id = cliente_id
    THEN Raise(db, "RuntimeError", "Cliente con cuentas activas")
    ELSE Return([db EXCEPT !.clientes = DictDel(@, cliente_id)], None)

\* ---------------------------------------------------- functions.py: cuentas
\* Bug: the number is generated before the client is looked up.
crear_cuenta_numero_antes(db, cliente_id, tipo) ==
    LET n == _next_cta_num(db)
    IN  IF cliente_id \notin DOMAIN db.clientes
        THEN Raise(n.db, "KeyError", "Cliente no existe")
        ELSE LET cuenta == Cuenta(n.val, cliente_id, tipo, 0)
             IN  Return([n.db EXCEPT !.cuentas = DictSet(@, n.val, cuenta)], cuenta)

crear_cuenta(db, cliente_id, tipo) ==
    IF cliente_id \notin DOMAIN db.clientes
    THEN Raise(db, "KeyError", "Cliente no existe")
    ELSE LET n == _next_cta_num(db)
             cuenta == Cuenta(n.val, cliente_id, tipo, 0)
         IN  Return([n.db EXCEPT !.cuentas = DictSet(@, n.val, cuenta)], cuenta)

actualizar_cuenta_tipo(db, numero, nuevo_tipo) ==
    IF numero \notin DOMAIN db.cuentas
    THEN Raise(db, "KeyError", "Cuenta no encontrada")
    ELSE LET cta == [db.cuentas[numero] EXCEPT !.tipo = nuevo_tipo]
         IN  Return([db EXCEPT !.cuentas = DictSet(@, numero, cta)], cta)

\* Bug: the balance is not checked.
eliminar_cuenta_sin_verificar_saldo(db, numero) ==
    IF numero \notin DOMAIN db.cuentas
    THEN Raise(db, "KeyError", "Cuenta no encontrada")
    ELSE Return([db EXCEPT !.cuentas = DictDel(@, numero)], None)

eliminar_cuenta(db, numero) ==
    IF numero \notin DOMAIN db.cuentas
    THEN Raise(db, "KeyError", "Cuenta no encontrada")
    ELSE IF db.cuentas[numero].saldo # 0
    THEN Raise(db, "RuntimeError", "No se puede eliminar una cuenta con saldo distinto de 0")
    ELSE Return([db EXCEPT !.cuentas = DictDel(@, numero)], None)

\* ------------------------------------------- functions.py: transacciones
\* (called by crud.py as svc.depositar, svc.retirar, svc.transferir,
\* svc.actualizar_transaccion and svc.eliminar_transaccion)
TxIndex(db, tx_id) ==
    {i \in DOMAIN db.transacciones : db.transacciones[i].id = tx_id}

RemoveAt(s, i) == [j \in 1..(Len(s) - 1) |-> IF j < i THEN s[j] ELSE s[j + 1]]

actualizar_transaccion(db, tx_id, nota) ==
    IF TxIndex(db, tx_id) = {}
    THEN Raise(db, "KeyError", "NotFound")
    ELSE LET i == CHOOSE j \in TxIndex(db, tx_id) : \A k \in TxIndex(db, tx_id) : j <= k
             tx == [db.transacciones[i] EXCEPT !.nota = nota]
         IN  Return([db EXCEPT !.transacciones[i] = tx], tx)

eliminar_transaccion(db, tx_id) ==
    IF TxIndex(db, tx_id) = {}
    THEN Raise(db, "KeyError", "NotFound")
    ELSE LET i == CHOOSE j \in TxIndex(db, tx_id) : \A k \in TxIndex(db, tx_id) : j <= k
         IN  Return([db EXCEPT !.transacciones = RemoveAt(@, i)], None)

depositar(db, cuenta, monto) ==
    IF cuenta \notin DOMAIN db.cuentas
    THEN Raise(db, "KeyError", "AccountNotFound")
    ELSE LET db1 == [db EXCEPT !.cuentas[cuenta].saldo = @ + monto]
             t == _registrar_tx(db1, "DEPOSITO", monto, None, cuenta)
         IN  Return(t.db, t.val)

\* Bug: the balance is not compared with the amount.
retirar_sin_verificar_saldo(db, cuenta, monto) ==
    IF cuenta \notin DOMAIN db.cuentas
    THEN Raise(db, "KeyError", "AccountNotFound")
    ELSE LET db1 == [db EXCEPT !.cuentas[cuenta].saldo = @ - monto]
             t == _registrar_tx(db1, "RETIRO", monto, cuenta, None)
         IN  Return(t.db, t.val)

retirar(db, cuenta, monto) ==
    IF cuenta \notin DOMAIN db.cuentas
    THEN Raise(db, "KeyError", "AccountNotFound")
    ELSE IF monto > db.cuentas[cuenta].saldo
    THEN Raise(db, "RuntimeError", "InsufficientFunds")
    ELSE LET db1 == [db EXCEPT !.cuentas[cuenta].saldo = @ - monto]
             t == _registrar_tx(db1, "RETIRO", monto, cuenta, None)
         IN  Return(t.db, t.val)

\* Bug: the origin's balance is not compared with the amount.
transferir_sin_verificar_saldo(db, origen, destino, monto) ==
    IF origen \notin DOMAIN db.cuentas \/ destino \notin DOMAIN db.cuentas
    THEN Raise(db, "KeyError", "AccountNotFound")
    ELSE IF origen = destino
    THEN Raise(db, "ValueError", "SameAccount")
    ELSE LET db1 == [db EXCEPT !.cuentas[origen].saldo = @ - monto,
                               !.cuentas[destino].saldo = @ + monto]
             t == _registrar_tx(db1, "TRANSFERENCIA", monto, origen, destino)
         IN  Return(t.db, t.val)

\* Bug: origin and destination are not compared.
transferir_sin_verificar_misma_cuenta(db, origen, destino, monto) ==
    IF origen \notin DOMAIN db.cuentas \/ destino \notin DOMAIN db.cuentas
    THEN Raise(db, "KeyError", "AccountNotFound")
    ELSE IF monto > db.cuentas[origen].saldo
    THEN Raise(db, "RuntimeError", "InsufficientFunds")
    ELSE LET db1 == [db EXCEPT !.cuentas[origen].saldo = @ - monto,
                               !.cuentas[destino].saldo = @ + monto]
             t == _registrar_tx(db1, "TRANSFERENCIA", monto, origen, destino)
         IN  Return(t.db, t.val)

transferir(db, origen, destino, monto) ==
    IF origen \notin DOMAIN db.cuentas \/ destino \notin DOMAIN db.cuentas
    THEN Raise(db, "KeyError", "AccountNotFound")
    ELSE IF origen = destino
    THEN Raise(db, "ValueError", "SameAccount")
    ELSE IF monto > db.cuentas[origen].saldo
    THEN Raise(db, "RuntimeError", "InsufficientFunds")
    ELSE LET db1 == [db EXCEPT !.cuentas[origen].saldo = @ - monto,
                               !.cuentas[destino].saldo = @ + monto]
             t == _registrar_tx(db1, "TRANSFERENCIA", monto, origen, destino)
         IN  Return(t.db, t.val)

\* ------------------------------------------------------ crud.py: handlers
\* A handler's answer: the body with its status code, or an HTTPException.
Response(r, status, body) ==
    [db |-> r.db, status |-> status, detail |-> None, body |-> body]

HTTPException(r, status) ==
    [db |-> r.db, status |-> status, detail |-> r.detail, body |-> None]

\* An exception no except clause of the handler names: FastAPI answers 500.
Uncaught(r) == HTTPException(r, 500)

crear_cliente_endpoint(db, nombre, email) ==
    LET r == crear_cliente(db, nombre, email)
    IN  IF r.exc = "ValueError" THEN HTTPException(r, 400)
        ELSE IF r.exc # None THEN Uncaught(r)
        ELSE Response(r, 201, r.val)

actualizar_cliente_endpoint(db, cliente_id, nombre, email) ==
    LET r == actualizar_cliente(db, cliente_id, nombre, email)
    IN  IF r.exc = "KeyError" THEN HTTPException(r, 404)
        ELSE IF r.exc = "ValueError" THEN HTTPException(r, 400)
        ELSE IF r.exc # None THEN Uncaught(r)
        ELSE Response(r, 200, r.val)

eliminar_cliente_endpoint(db, cliente_id) ==
    LET r == eliminar_cliente(db, cliente_id)
    IN  IF r.exc = "KeyError" THEN HTTPException(r, 404)
        ELSE IF r.exc = "RuntimeError" THEN HTTPException(r, 400)
        ELSE IF r.exc # None THEN Uncaught(r)
        ELSE Response(r, 200, "Cliente eliminado")

crear_cuenta_endpoint(db, cliente_id, tipo) ==
    LET r == crear_cuenta(db, cliente_id, tipo)
    IN  IF r.exc = "KeyError" THEN HTTPException(r, 404)
        ELSE IF r.exc # None THEN Uncaught(r)
        ELSE Response(r, 201, r.val)

actualizar_cuenta_endpoint(db, numero, tipo) ==
    LET r == actualizar_cuenta_tipo(db, numero, tipo)
    IN  IF r.exc = "KeyError" THEN HTTPException(r, 404)
        ELSE IF r.exc # None THEN Uncaught(r)
        ELSE Response(r, 200, r.val)

eliminar_cuenta_endpoint(db, numero) ==
    LET r == eliminar_cuenta(db, numero)
    IN  IF r.exc = "KeyError" THEN HTTPException(r, 404)
        ELSE IF r.exc = "RuntimeError" THEN HTTPException(r, 400)
        ELSE IF r.exc # None THEN Uncaught(r)
        ELSE Response(r, 200, "Cuenta eliminada")

actualizar_tx(db, tx_id, nota) ==
    LET r == actualizar_transaccion(db, tx_id, nota)
    IN  IF r.exc = "KeyError" THEN HTTPException(r, 404)
        ELSE IF r.exc # None THEN Uncaught(r)
        ELSE Response(r, 200, r.val)

eliminar_tx(db, tx_id) ==
    LET r == eliminar_transaccion(db, tx_id)
    IN  IF r.exc = "KeyError" THEN HTTPException(r, 404)
        ELSE IF r.exc # None THEN Uncaught(r)
        ELSE Response(r, 200, "Transaccion eliminada")

depositar_endpoint(db, cuenta, monto) ==
    LET r == depositar(db, cuenta, monto)
    IN  IF r.exc = "KeyError" THEN HTTPException(r, 404)
        ELSE IF r.exc # None THEN Uncaught(r)
        ELSE Response(r, 201, r.val)

retirar_endpoint(db, cuenta, monto) ==
    LET r == retirar(db, cuenta, monto)
    IN  IF r.exc = "KeyError" THEN HTTPException(r, 404)
        ELSE IF r.exc = "RuntimeError" THEN HTTPException(r, 400)
        ELSE IF r.exc # None THEN Uncaught(r)
        ELSE Response(r, 201, r.val)

transferir_endpoint(db, origen, destino, monto) ==
    LET r == transferir(db, origen, destino, monto)
    IN  IF r.exc = "KeyError" THEN HTTPException(r, 404)
        ELSE IF r.exc = "ValueError" THEN HTTPException(r, 400)
        ELSE IF r.exc = "RuntimeError" THEN HTTPException(r, 400)
        ELSE IF r.exc # None THEN Uncaught(r)
        ELSE Response(r, 201, r.val)

\* ------------------------------------------------------------ the machine
\* Account numbers a request may name: those the counter can have produced.
Numeros == {FormatACC(n) : n \in 1..MaxSeqCta}

\* The database stays inside the bounds of the model.
Dentro(db) ==
    /\ db.seq_tx <= MaxSeqTx
    /\ db.seq_cta <= MaxSeqCta
    /\ \A i \in DOMAIN db.clientes : i <= MaxClienteId
    /\ \A n \in DOMAIN db.cuentas : db.cuentas[n].saldo <= MaxSaldo

\* One request served: the handler's answer a to operation op is committed to
\* the globals, and the answer itself is remembered in resp.
Serve(op, a) ==
    /\ Dentro(a.db)
    /\ clientes' = a.db.clientes
    /\ cuentas' = a.db.cuentas
    /\ transacciones' = a.db.transacciones
    /\ _seq_tx' = a.db.seq_tx
    /\ _seq_cta' = a.db.seq_cta
    /\ resp' = [op |-> op, status |-> a.status, detail |-> a.detail, body |-> a.body]
    /\ numeros_emitidos' =
         IF op = "crear_cuenta" /\ a.status = 201
         THEN Append(numeros_emitidos, a.body.numero) ELSE numeros_emitidos
    /\ ids_registrados' =
         IF op \in {"depositar", "retirar", "transferir"} /\ a.status = 201
         THEN Append(ids_registrados, a.body.id) ELSE ids_registrados

Init ==
    /\ clientes = << >>
    /\ cuentas = << >>
    /\ transacciones = << >>
    /\ _seq_tx = 0
    /\ _seq_cta = 0
    /\ resp = [op |-> "root", status |-> 200, detail |-> None, body |-> "ok"]
    /\ numeros_emitidos = << >>
    /\ ids_registrados = << >>

CrearCliente ==
    \E nombre \in Nombres, email \in Emails :
        Serve("crear_cliente", crear_cliente_endpoint(Store, nombre, email))

ActualizarCliente ==
    \E id \in ClienteIds, nombre \in Nombres, email \in Emails :
        Serve("actualizar_cliente", actualizar_cliente_endpoint(Store, id, nombre, email))

EliminarCliente ==
    \E id \in ClienteIds :
        Serve("eliminar_cliente", eliminar_cliente_endpoint(Store, id))

CrearCuenta ==
    \E id \in ClienteIds, tipo \in Tipos :
        Serve("crear_cuenta", crear_cuenta_endpoint(Store, id, tipo))

ActualizarCuenta ==
    \E numero \in Numeros, tipo \in Tipos :
        Serve("actualizar_cuenta", actualizar_cuenta_endpoint(Store, numero, tipo))

EliminarCuenta ==
    \E numero \in Numeros :
        Serve("eliminar_cuenta", eliminar_cuenta_endpoint(Store, numero))

ActualizarTx ==
    \E tx_id \in TxIds, nota \in Notas :
        Serve("actualizar_tx", actualizar_tx(Store, tx_id, nota))

EliminarTx ==
    \E tx_id \in TxIds :
        Serve("eliminar_tx", eliminar_tx(Store, tx_id))

Depositar ==
    \E cuenta \in Numeros, monto \in Montos :
        Serve("depositar", depositar_endpoint(Store, cuenta, monto))

Retirar ==
    \E cuenta \in Numeros, monto \in Montos :
        Serve("retirar", retirar_endpoint(Store, cuenta, monto))

Transferir ==
    \E origen \in Numeros, destino \in Numeros, monto \in Montos :
        Serve("transferir", transferir_endpoint(Store, origen, destino, monto))

Next ==
    \/ CrearCliente
    \/ ActualizarCliente
    \/ EliminarCliente
    \/ CrearCuenta
    \/ ActualizarCuenta
    \/ EliminarCuenta
    \/ ActualizarTx
    \/ EliminarTx
    \/ Depositar
    \/ Retirar
    \/ Transferir

Spec == Init /\ [][Next]_vars

\* ---------------------------------------------------------------- claims
\* Amounts a request may carry, one of them above every reachable balance.
MontosPedidos == 1..(MaxSaldo + 1)

\* C1: no two distinct clients in the store have the same email.
C1_EmailUnico ==
    \A i \in DOMAIN clientes, j \in DOMAIN clientes :
        i # j => clientes[i].email # clientes[j].email

\* Two clients are stored and the last request, an update that would have given
\* one the other's email, was refused.
C1_Witness ==
    /\ Cardinality(DOMAIN clientes) >= 2
    /\ resp.op = "actualizar_cliente"
    /\ resp.detail = "Email ya registrado por otro cliente"

\* C2: every stored account's cliente_id is the id of a stored client.
C2_SinCuentasHuerfanas ==
    \A n \in DOMAIN cuentas : cuentas[n].cliente_id \in DOMAIN clientes

\* The deletion of a client who holds an account was just refused.
C2_Witness ==
    /\ resp.op = "eliminar_cliente"
    /\ resp.detail = "Cliente con cuentas activas"
    /\ \E n \in DOMAIN cuentas : cuentas[n].cliente_id \in DOMAIN clientes

C4_NumerosNoReusados ==
    \A i \in DOMAIN numeros_emitidos, j \in DOMAIN numeros_emitidos :
        i # j => numeros_emitidos[i] # numeros_emitidos[j]

\* An account was created after an earlier one had been deleted.
C4_Witness ==
    /\ resp.op = "crear_cuenta"
    /\ resp.status = 201
    /\ Len(numeros_emitidos) >= 2
    /\ numeros_emitidos[1] \notin DOMAIN cuentas

\* C5: every recorded transaction's id is greater than the id of every
\* transaction recorded before it, deleted ones included.
C5_IdsCrecientes ==
    \A i \in DOMAIN ids_registrados, j \in DOMAIN ids_registrados :
        i < j => ids_registrados[i] < ids_registrados[j]

\* A transaction was recorded after an earlier one had been deleted.
C5_Witness ==
    /\ resp.op \in {"depositar", "retirar", "transferir"}
    /\ resp.status = 201
    /\ Len(ids_registrados) >= 2
    /\ \A i \in DOMAIN transacciones : transacciones[i].id # ids_registrados[1]

\* C6: a request that fails leaves clientes, cuentas, transacciones and both
\* counters as they were; and crear_cuenta for a cliente_id that is not stored
\* answers 404 "Cliente no existe", adds no account and consumes no number.
C6_FalloSinCambios ==
    /\ [][resp'.status >= 400 => Store' = Store]_vars
    /\ [](\A id \in (1..(MaxClienteId + 1)) \ DOMAIN clientes, tipo \in TipoCuenta :
            LET a == crear_cuenta_endpoint(Store, id, tipo)
            IN  /\ a.status = 404
                /\ a.detail = "Cliente no existe"
                /\ a.db = Store)

\* crear_cuenta was just refused for an unknown client, after the counter had
\* already issued a number.
C6_Witness ==
    /\ resp.op = "crear_cuenta"
    /\ resp.status = 404
    /\ resp.detail = "Cliente no existe"
    /\ _seq_cta >= 1

\* C7: a successful crear_cliente returns the id max(existing ids) + 1, or 1
\* when no client is stored; the new client is stored under that id and every
\* client stored before is still there, unchanged.
C7_IdSiguiente ==
    [][(resp'.op = "crear_cliente" /\ resp'.status = 201) =>
        LET id == resp'.body.id
        IN  /\ id = IF DOMAIN clientes = {} THEN 1 ELSE Max(DOMAIN clientes) + 1
            /\ id \notin DOMAIN clientes
            /\ DOMAIN clientes' = (DOMAIN clientes) \cup {id}
            /\ clientes'[id] = resp'.body
            /\ \A i \in DOMAIN clientes : clientes'[i] = clientes[i]]_vars

\* A second client was just created beside the first.
C7_Witness ==
    /\ resp.op = "crear_cliente"
    /\ resp.status = 201
    /\ resp.body.id = 2
    /\ DOMAIN clientes = {1, 2}

\* C8: for a stored account eliminar_cuenta succeeds exactly when its saldo is
\* 0, and then removes it; with any other saldo it answers 400 and the account
\* (and all the store) stays as it was; for a number not stored it answers 404.
C8_EliminarCuenta ==
    \A numero \in Numeros \cup {FormatACC(MaxSeqCta + 1)} :
        LET a == eliminar_cuenta_endpoint(Store, numero)
        IN  IF numero \in DOMAIN cuentas
            THEN /\ (a.status = 200) <=> (cuentas[numero].saldo = 0)
                 /\ cuentas[numero].saldo = 0 =>
                        a.db = [Store EXCEPT !.cuentas = DictDel(@, numero)]
                 /\ cuentas[numero].saldo # 0 =>
                        /\ a.status = 400
                        /\ a.detail = "No se puede eliminar una cuenta con saldo distinto de 0"
                        /\ a.db = Store
            ELSE /\ a.status = 404
                 /\ a.detail = "Cuenta no encontrada"
                 /\ a.db = Store

\* The deletion of an account that holds money was just refused.
C8_Witness ==
    /\ resp.op = "eliminar_cuenta"
    /\ resp.status = 400
    /\ \E n \in DOMAIN cuentas : cuentas[n].saldo # 0

\* C9: retirar from a stored account with monto > saldo answers 400
\* InsufficientFunds, and neither the saldo nor the list of transactions (nor
\* anything else in the store) changes.
C9_RetiroSinFondos ==
    \A n \in DOMAIN cuentas, m \in MontosPedidos :
        m > cuentas[n].saldo =>
            LET a == retirar_endpoint(Store, n, m)
            IN  /\ a.status = 400
                /\ a.detail = "InsufficientFunds"
                /\ a.db = Store

\* A withdrawal was just refused although every account holds some money.
C9_Witness ==
    /\ resp.op = "retirar"
    /\ resp.detail = "InsufficientFunds"
    /\ DOMAIN cuentas # {}
    /\ \A n \in DOMAIN cuentas : cuentas[n].saldo > 0

====
